---------------------------- MODULE Spec2Model ----------------------------
(***************************************************************************)
(* A model of py_common.py: the test-case file-name grammars, the          *)
(* splitting of a test-case directory into numbered subdirectories, the    *)
(* process-wide finding-id counter, the elapsed-time formatter and the     *)
(* working directory of run_analysis.                                      *)
(*                                                                         *)
(* A file name is a sequence of one-character strings, so that the         *)
(* regular expressions of the source can be modelled position by position. *)
(* Directory names and formatted output are TLA+ strings.                  *)
(***************************************************************************)
EXTENDS Integers, Sequences, FiniteSets, TLC

VARIABLES
    \* move_testcase_to_split_directories
    dir_root,                  \* the files present in the root directory
    dir_sub,                   \* created subdirectory |-> the files it holds
    functional_variants,       \* argument: list of functional variant names
    testcase_files,            \* argument: list of test-case files
    file_count_limit,          \* argument
    subdir_count,
    number_of_files_in_subdir,
    is_subdir_needed,
    func_var_dir,
    fv_i,                      \* position of the for loop over functional_variants
    func_var_testcase_files,   \* the files filtered for the current variant
    tc_i,                      \* position of the for loop over func_var_testcase_files
    \* break_up_filename and the primary grammar, over a list of file names
    templates,                 \* what each file name was built from
    file_names,                \* the file names to parse
    parts_out,                 \* the records break_up_filename has returned
    primary_out,               \* the results of the primary grammar's search
    log,                       \* what print_with_timestamp has printed
    \* transform_csv with add_unique_finding_ids
    unique_id_count,           \* the module's global counter
    row_fx,                    \* argument of the transform_csv in progress
    orig_header,               \* the header of its input file
    rows_left,                 \* the rows its reader has yet to yield
    written,                   \* the output files written so far, in order
    transforms,                \* the number of transform_csv calls so far
    \* convertSecondsToDHMS
    seconds_in,                \* argument, in tenths of a second
    dhms_out,                  \* the string returned
    \* run_analysis
    cwd,                       \* the working directory of the process
    cwd_at_call,               \* the working directory when run_analysis was called
    sys_path_0,                \* sys.path[0], the directory of the script
    build_files,               \* what find_files_in_dir returned
    build_i,                   \* the position of the for loop in it
    analysed,                  \* the arguments the callback was given, in order
    pc                         \* "for", "move", "done", "raised" in the split;
                               \* "names" while file names are parsed;
                               \* "idle", "rows", "raised" for transform_csv;
                               \* "dhms", "formatted" for convertSecondsToDHMS;
                               \* "files", "in_dir", "ran", "returned",
                               \* "raised" for run_analysis

splitVars == <<dir_root, dir_sub, functional_variants, testcase_files,
               file_count_limit, subdir_count, number_of_files_in_subdir,
               is_subdir_needed, func_var_dir, fv_i, func_var_testcase_files, tc_i>>

nameVars == <<templates, file_names, parts_out, primary_out, log>>

idVars == <<unique_id_count, row_fx, orig_header, rows_left, written, transforms>>

dhmsVars == <<seconds_in, dhms_out>>

cwdVars == <<cwd, cwd_at_call, sys_path_0, build_files, build_i, analysed>>

vars == <<splitVars, nameVars, idVars, dhmsVars, cwdVars, pc>>

----------------------------------------------------------------------------
(* Characters and case-insensitive comparison (re.IGNORECASE).              *)

Digits == {"0", "1", "2", "3", "4", "5", "6", "7", "8", "9"}

LowerOf ==
    [c \in {"A", "B", "C", "D", "E", "F", "G", "H", "I", "J", "K", "L", "M",
            "N", "O", "P", "Q", "R", "S", "T", "U", "V", "W", "X", "Y", "Z"} |->
        CASE c = "A" -> "a" [] c = "B" -> "b" [] c = "C" -> "c" [] c = "D" -> "d"
          [] c = "E" -> "e" [] c = "F" -> "f" [] c = "G" -> "g" [] c = "H" -> "h"
          [] c = "I" -> "i" [] c = "J" -> "j" [] c = "K" -> "k" [] c = "L" -> "l"
          [] c = "M" -> "m" [] c = "N" -> "n" [] c = "O" -> "o" [] c = "P" -> "p"
          [] c = "Q" -> "q" [] c = "R" -> "r" [] c = "S" -> "s" [] c = "T" -> "t"
          [] c = "U" -> "u" [] c = "V" -> "v" [] c = "W" -> "w" [] c = "X" -> "x"
          [] c = "Y" -> "y" [] c = "Z" -> "z"]

Lower(c) == IF c \in DOMAIN LowerOf THEN LowerOf[c] ELSE c

IsLetter(c) == Lower(c) \in {LowerOf[u] : u \in DOMAIN LowerOf}

\* the literal lit occurs in s at position i, compared case-insensitively
LitAt(s, i, lit) ==
    /\ i >= 1
    /\ i + Len(lit) - 1 <= Len(s)
    /\ \A k \in 1..Len(lit) : Lower(s[i + k - 1]) = Lower(lit[k])

\* s[i..j] is a non-empty run of digits: \d+
DigitsIn(s, i, j) == i <= j /\ \A k \in i..j : s[k] \in Digits

\* the whole of s equals lit, case-insensitively
EqualsCI(s, lit) == Len(s) = Len(lit) /\ LitAt(s, 1, lit)

Range(s) == {s[k] : k \in DOMAIN s}

\* order on tuples of numbers of the same length; the regex engine's choice
\* among several ways to match is the greatest in this order (greedy .*, \d+, _?)
LexGeq(x, y) ==
    \/ x = y
    \/ \E k \in DOMAIN x : x[k] > y[k] /\ \A j \in 1..(k - 1) : x[j] = y[j]

----------------------------------------------------------------------------
(* get_testcase_filename_regex, searched with re.IGNORECASE.                *)
(* A way to match s is <<p, q, r, u>>:                                      *)
(*   cwe_number = s[4..n], cwe_name = s[n+2..p-1], "__" at p,               *)
(*   functional_variant_name = s[p+2..q-1], "_" at q,                       *)
(*   flow_variant_id = s[q+1..r], u = 1 iff "_?" takes an underscore,       *)
(*   subfile_id = s[r+u+1..t-1], "." at t, extension = s[t+1..Len(s)].      *)

\* None: no sequence of characters equals it
NoneValue == <<"None">>

\* the end of the run of digits that starts at position i (i - 1 if none)
DigitRunEnd(s, i) ==
    LET ends == {j \in (i - 1)..Len(s) : \A k \in i..j : s[k] \in Digits}
    IN  CHOOSE j \in ends : \A k \in ends : k <= j

\* "\." followed by the extension and "$": the position of that dot, or 0
ExtensionDot(s, exts) ==
    LET dots == {t \in 1..Len(s) :
                    /\ s[t] = "."
                    /\ \E e \in exts : EqualsCI(SubSeq(s, t + 1, Len(s)), e)}
    IN  IF dots = {} THEN 0 ELSE CHOOSE t \in dots : TRUE

TestcaseExtensions == {<<"c">>, <<"c", "p", "p">>, <<"j", "a", "v", "a">>, <<"h">>}

\* (?P<subfile_id>[a-z]{1}|(bad)|(good(\d)+)|(base)|(goodB2G)|(goodG2B))
TestcaseSubfile(x) ==
    \/ Len(x) = 1 /\ IsLetter(x[1])
    \/ EqualsCI(x, <<"b", "a", "d">>)
    \/ Len(x) >= 5 /\ LitAt(x, 1, <<"g", "o", "o", "d">>) /\ DigitsIn(x, 5, Len(x))
    \/ EqualsCI(x, <<"b", "a", "s", "e">>)
    \/ EqualsCI(x, <<"g", "o", "o", "d", "B", "2", "G">>)
    \/ EqualsCI(x, <<"g", "o", "o", "d", "G", "2", "B">>)

TestcaseMatches(s) ==
    LET n == DigitRunEnd(s, 4)
        t == ExtensionDot(s, TestcaseExtensions)
        Tails(q) == {<<r, u>> \in ((q + 1)..DigitRunEnd(s, q + 1)) \X {0, 1} :
                        /\ r < t
                        /\ (u = 1 => r + 1 < t /\ s[r + 1] = "_")
                        /\ LET x == SubSeq(s, r + u + 1, t - 1)
                           IN  x = <<>> \/ TestcaseSubfile(x)}
        After(p) == UNION {{<<p, q, ru[1], ru[2]>> : ru \in Tails(q)} :
                             q \in {k \in (p + 2)..(t - 1) : s[k] = "_"}}
    IN  IF ~(LitAt(s, 1, <<"c", "w", "e">>) /\ n >= 4 /\ LitAt(s, n + 1, <<"_">>) /\ t > 0)
        THEN {}
        ELSE UNION {After(p) : p \in {k \in (n + 2)..(t - 1) : LitAt(s, k, <<"_", "_">>)}}

TestcaseSearchLazy(s) ==
    LET ms == TestcaseMatches(s)
    IN  IF ms = {} THEN [matched |-> FALSE]
        ELSE LET m == CHOOSE x \in ms : \A y \in ms : LexGeq(y, x)
                 n == DigitRunEnd(s, 4)
                 t == ExtensionDot(s, TestcaseExtensions)
                 x == SubSeq(s, m[3] + m[4] + 1, t - 1)
             IN  [matched |-> TRUE,
                  cwe_number |-> SubSeq(s, 4, n),
                  cwe_name |-> SubSeq(s, n + 2, m[1] - 1),
                  functional_variant_name |-> SubSeq(s, m[1] + 2, m[2] - 1),
                  flow_variant_id |-> SubSeq(s, m[2] + 1, m[3]),
                  subfile_id |-> IF x = <<>> THEN NoneValue ELSE x,
                  extension |-> SubSeq(s, t + 1, Len(s))]

\* re.search(get_testcase_filename_regex(), file_name, re.IGNORECASE) and the
\* groups of the match; NoneValue for a group that took no part in the match
TestcaseSearch(s) ==
    LET ms == TestcaseMatches(s)
    IN  IF ms = {} THEN [matched |-> FALSE]
        ELSE LET m == CHOOSE x \in ms : \A y \in ms : LexGeq(x, y)
                 n == DigitRunEnd(s, 4)
                 t == ExtensionDot(s, TestcaseExtensions)
                 x == SubSeq(s, m[3] + m[4] + 1, t - 1)
             IN  [matched |-> TRUE,
                  cwe_number |-> SubSeq(s, 4, n),
                  cwe_name |-> SubSeq(s, n + 2, m[1] - 1),
                  functional_variant_name |-> SubSeq(s, m[1] + 2, m[2] - 1),
                  flow_variant_id |-> SubSeq(s, m[2] + 1, m[3]),
                  subfile_id |-> IF x = <<>> THEN NoneValue ELSE x,
                  extension |-> SubSeq(s, t + 1, Len(s))]

----------------------------------------------------------------------------
(* get_primary_testcase_filename_regex, searched with re.IGNORECASE.        *)

\* (?!CWE580.*01_bad.java) at the start of the name fails: the name starts
\* with CWE580 and goes on with 01_bad, any one character, java
Cwe580Lookahead(s) ==
    /\ LitAt(s, 1, <<"C", "W", "E", "5", "8", "0">>)
    /\ \E i \in 7..Len(s) :
          /\ LitAt(s, i, <<"0", "1", "_", "b", "a", "d">>)
          /\ LitAt(s, i + 7, <<"j", "a", "v", "a">>)

FlowLookaheadOff(s, i) == FALSE

\* (?!8[12]_bad) at position i fails: 81_bad or 82_bad starts there
FlowLookahead(s, i) ==
    \/ LitAt(s, i, <<"8", "1", "_", "b", "a", "d">>)
    \/ LitAt(s, i, <<"8", "2", "_", "b", "a", "d">>)

PrimaryExtensions == {<<"c">>, <<"c", "p", "p">>, <<"j", "a", "v", "a">>}

\* (?P<subfile_id>a|(_bad))
PrimarySubfile(x) == EqualsCI(x, <<"a">>) \/ EqualsCI(x, <<"_", "b", "a", "d">>)

PrimaryMatches(s) ==
    LET n == DigitRunEnd(s, 4)
        t == ExtensionDot(s, PrimaryExtensions)
        Tails(q) == {<<r, u>> \in ((q + 1)..DigitRunEnd(s, q + 1)) \X {0, 1} :
                        /\ r < t
                        /\ ~FlowLookahead(s, q + 1)
                        /\ (u = 1 => r + 1 < t /\ s[r + 1] = "_")
                        /\ LET x == SubSeq(s, r + u + 1, t - 1)
                           IN  x = <<>> \/ PrimarySubfile(x)}
        After(p) == UNION {{<<p, q, ru[1], ru[2]>> : ru \in Tails(q)} :
                             q \in {k \in (p + 2)..(t - 1) : s[k] = "_"}}
    IN  IF ~(/\ ~Cwe580Lookahead(s)
             /\ LitAt(s, 1, <<"c", "w", "e">>)
             /\ n >= 4
             /\ LitAt(s, n + 1, <<"_">>)
             /\ t > 0)
        THEN {}
        ELSE UNION {After(p) : p \in {k \in (n + 2)..(t - 1) : LitAt(s, k, <<"_", "_">>)}}

\* re.search(get_primary_testcase_filename_regex(), file_name, re.IGNORECASE)
PrimarySearch(s) ==
    LET ms == PrimaryMatches(s)
    IN  IF ms = {} THEN [matched |-> FALSE]
        ELSE LET m == CHOOSE x \in ms : \A y \in ms : LexGeq(x, y)
                 n == DigitRunEnd(s, 4)
                 t == ExtensionDot(s, PrimaryExtensions)
                 x == SubSeq(s, m[3] + m[4] + 1, t - 1)
             IN  [matched |-> TRUE,
                  cwe_number |-> SubSeq(s, 4, n),
                  cwe_name |-> SubSeq(s, n + 2, m[1] - 1),
                  functional_variant_name |-> SubSeq(s, m[1] + 2, m[2] - 1),
                  flow_variant_id |-> SubSeq(s, m[2] + 1, m[3]),
                  subfile_id |-> IF x = <<>> THEN NoneValue ELSE x,
                  extension |-> SubSeq(s, t + 1, Len(s))]

----------------------------------------------------------------------------
(* break_up_filename                                                        *)

\* the line print_with_timestamp prints for a name that does not match
Warning(file_name) == [warning |-> "is not going to be parsed into parts", file |-> file_name]

UnsetValue == NoneValue

\* lines 444-449: the value every field starts with, ''
BlankValue == <<>>

\* lines 453-474: what is printed, and the record returned, for the result of
\* the search
PartsOf(result, file_name) ==
    IF ~result.matched
    THEN [printed |-> <<Warning(file_name)>>,
          parts |-> [testcase_cwe_number |-> BlankValue,
                     testcase_cwe_name |-> BlankValue,
                     testcase_function_variant |-> BlankValue,
                     testcase_flow_variant |-> BlankValue,
                     testcase_subfile_id |-> BlankValue,
                     testcase_language |-> BlankValue]]
    ELSE [printed |-> <<>>,
          parts |-> [testcase_cwe_number |-> result.cwe_number,
                     testcase_cwe_name |-> result.cwe_name,
                     testcase_function_variant |-> result.functional_variant_name,
                     testcase_flow_variant |-> result.flow_variant_id,
                     testcase_subfile_id |-> result.subfile_id,
                     testcase_language |-> result.extension]]

\* lines 439-474
break_up_filename(file_name) == PartsOf(TestcaseSearch(file_name), file_name)

----------------------------------------------------------------------------
(* move_testcase_to_split_directories                                       *)

\* filter_regex.search(f) for func_var_regex = "__" + func_var + "_\d\d",
\* compiled with re.IGNORECASE (func_var holds no regex metacharacter)
FilterSearch(func_var, f) ==
    \E i \in 1..Len(f) :
        /\ LitAt(f, i, <<"_", "_">> \o func_var \o <<"_">>)
        /\ i + Len(func_var) + 4 <= Len(f)
        /\ DigitsIn(f, i + Len(func_var) + 3, i + Len(func_var) + 4)

\* [f for f in testcase_files if filter_regex.search(f)]
FuncVarTestcaseFiles(func_var, files) ==
    LET Keep(f) == FilterSearch(func_var, f)
    IN  SelectSeq(files, Keep)

\* the test of line 588, "before adding" variant of it first
SubdirNeededBeforeAdding(count, in_subdir, limit) == in_subdir > limit

SubdirNeeded(count, in_subdir, limit) == (count + in_subdir) > limit

\* str(n) for n >= 0
DigitStr == <<"0", "1", "2", "3", "4", "5", "6", "7", "8", "9">>

RECURSIVE Str(_)
Str(n) == IF n < 10 THEN DigitStr[n + 1] ELSE Str(n \div 10) \o DigitStr[(n % 10) + 1]

SubdirNamePadded(count) == "s" \o "0" \o Str(count)

\* lines 592-595, relative to dir
SubdirName(count) ==
    IF count < 10 THEN "s" \o "0" \o Str(count) ELSE "s" \o Str(count)

RunningCountReset(in_subdir, count) == count

\* line 601
RunningCount(in_subdir, count) == in_subdir + count

CopyDestinationSplit(cur_dir, dirs, limit) ==
    IF Cardinality(dirs[cur_dir]) >= limit /\ limit > 0 THEN "s01" ELSE cur_dir

\* line 607: every file of the variant is copied to func_var_dir
CopyDestination(cur_dir, dirs, limit) == cur_dir

RootAfterCopyOnly(root, f) == root

\* line 608: os.unlink(testcase_file)
RootAfterUnlink(root, f) == root \ {f}

\* lines 581-605: the head of one iteration of the loop over the variants
BeginVariant ==
    /\ pc = "for"
    /\ fv_i <= Len(functional_variants)
    /\ LET func_var == functional_variants[fv_i]
           files == FuncVarTestcaseFiles(func_var, testcase_files)
           count == Len(files)
           needed == IF SubdirNeeded(count, number_of_files_in_subdir, file_count_limit)
                     THEN TRUE ELSE is_subdir_needed
           name == SubdirName(subdir_count)
       IN  /\ func_var_testcase_files' = files
           /\ tc_i' = 1
           /\ IF needed
              THEN /\ func_var_dir' = name
                   /\ IF name \in DOMAIN dir_sub
                      THEN \* os.mkdir raises FileExistsError
                           /\ pc' = "raised"
                           /\ is_subdir_needed' = TRUE
                           /\ UNCHANGED <<dir_sub, subdir_count, number_of_files_in_subdir>>
                      ELSE /\ dir_sub' = [d \in DOMAIN dir_sub \cup {name} |->
                                            IF d = name THEN {} ELSE dir_sub[d]]
                           /\ subdir_count' = subdir_count + 1
                           /\ is_subdir_needed' = FALSE
                           /\ number_of_files_in_subdir' = count
                           /\ pc' = "move"
              ELSE /\ number_of_files_in_subdir' =
                          RunningCount(number_of_files_in_subdir, count)
                   /\ pc' = "move"
                   /\ UNCHANGED <<dir_sub, subdir_count, is_subdir_needed, func_var_dir>>
    /\ UNCHANGED <<dir_root, functional_variants, testcase_files, file_count_limit, fv_i>>
    /\ UNCHANGED <<nameVars, idVars, dhmsVars, cwdVars>>

\* lines 606-608 for one file that is still in the root directory
MoveFile ==
    /\ pc = "move"
    /\ tc_i <= Len(func_var_testcase_files)
    /\ LET f == func_var_testcase_files[tc_i]
           dest == CopyDestination(func_var_dir, dir_sub, file_count_limit)
       IN  /\ f \in dir_root
           /\ dir_sub' = [dir_sub EXCEPT ![dest] = @ \cup {f}]
           /\ dir_root' = RootAfterUnlink(dir_root, f)
    /\ tc_i' = tc_i + 1
    /\ UNCHANGED <<functional_variants, testcase_files, file_count_limit, subdir_count,
                   number_of_files_in_subdir, is_subdir_needed, func_var_dir, fv_i,
                   func_var_testcase_files, pc>>
    /\ UNCHANGED <<nameVars, idVars, dhmsVars, cwdVars>>

\* line 607 for a file that is no longer there: shutil.copy raises FileNotFoundError
CopyFails ==
    /\ pc = "move"
    /\ tc_i <= Len(func_var_testcase_files)
    /\ func_var_testcase_files[tc_i] \notin dir_root
    /\ pc' = "raised"
    /\ UNCHANGED <<splitVars, nameVars, idVars, dhmsVars, cwdVars>>

\* the loop over the files of the variant is exhausted: next variant
EndVariant ==
    /\ pc = "move"
    /\ tc_i > Len(func_var_testcase_files)
    /\ fv_i' = fv_i + 1
    /\ pc' = "for"
    /\ UNCHANGED <<dir_root, dir_sub, functional_variants, testcase_files,
                   file_count_limit, subdir_count, number_of_files_in_subdir,
                   is_subdir_needed, func_var_dir, func_var_testcase_files, tc_i>>
    /\ UNCHANGED <<nameVars, idVars, dhmsVars, cwdVars>>

\* the loop over the variants is exhausted: the function returns
Return ==
    /\ pc = "for"
    /\ fv_i > Len(functional_variants)
    /\ pc' = "done"
    /\ UNCHANGED <<splitVars, nameVars, idVars, dhmsVars, cwdVars>>

----------------------------------------------------------------------------
(* Inputs of move_testcase_to_split_directories.                            *)

MaxVariants == 3
MaxLimit == 3
MaxFlows == 6
MaxSubdirs == 11

\* "CWE" + cwe_number + "_" + cwe_name + "__" + functional_variant_name + "_" +
\* flow_variant_id + sep + subfile_id + "." + extension
TestcaseFileName(cwe_number, cwe_name, fv, flow, sep, subfile, ext) ==
    <<"C", "W", "E">> \o cwe_number \o <<"_">> \o cwe_name \o <<"_", "_">> \o fv
        \o <<"_">> \o flow \o sep \o subfile \o <<".">> \o ext

\* a C file of CWE1_n, the directory being split
SplitFile(fv, flow) == TestcaseFileName(<<"1">>, <<"n">>, fv, flow, <<>>, <<>>, <<"c">>)

TwoDigits(k) == <<DigitStr[(k \div 10) + 1], DigitStr[(k % 10) + 1]>>

\* variant names, one a prefix of another; the last file has a flow variant
\* id of one digit
OverlapVariants == {<<"a">>, <<"a", "_", "1", "2">>, <<"b">>}

OverlapFiles ==
    <<SplitFile(<<"a">>, <<"0", "1">>),
      SplitFile(<<"a">>, <<"0", "2">>),
      SplitFile(<<"a", "_", "1", "2">>, <<"0", "1">>),
      SplitFile(<<"b">>, <<"0", "1">>),
      SplitFile(<<"b">>, <<"2">>)>>

\* the variant lists without repetition, of at most n names of S
RECURSIVE ListsOf(_, _)
ListsOf(S, n) ==
    IF n = 0 THEN {<<>>}
    ELSE LET shorter == ListsOf(S, n - 1)
         IN  shorter \cup UNION {{Append(l, v) : v \in S \ Range(l)} : l \in shorter}

\* the files with flow variants 01..k of variant fv, in order
FlowFiles(fv, k) == [i \in 1..k |-> SplitFile(fv, TwoDigits(i))]

\* distinct variant names v01, v02, ...
NumberedVariant(k) == <<"v">> \o TwoDigits(k)

SplitStart(variants, files, limit) ==
    /\ functional_variants = variants
    /\ testcase_files = files
    /\ file_count_limit = limit
    /\ dir_root = Range(files)
    /\ dir_sub = [d \in {} |-> {}]
    /\ subdir_count = 1
    /\ number_of_files_in_subdir = 0
    /\ is_subdir_needed = TRUE
    /\ func_var_dir = ""
    /\ fv_i = 1
    /\ func_var_testcase_files = <<>>
    /\ tc_i = 1

\* no file name is being parsed
NamesIdle ==
    /\ templates = <<>>
    /\ file_names = <<>>
    /\ parts_out = <<>>
    /\ primary_out = <<>>
    /\ log = <<>>

\* no transform_csv has been called: the module has just been loaded
IdsIdle ==
    /\ unique_id_count = 1
    /\ row_fx = "None"
    /\ orig_header = <<>>
    /\ rows_left = 0
    /\ written = <<>>
    /\ transforms = 0

\* convertSecondsToDHMS is not called
DhmsIdle ==
    /\ seconds_in = 0
    /\ dhms_out = ""

\* run_analysis is not called
CwdIdle ==
    /\ cwd = "/"
    /\ cwd_at_call = "/"
    /\ sys_path_0 = "/"
    /\ build_files = <<>>
    /\ build_i = 1
    /\ analysed = <<>>

SplitInit ==
    \/ \E variants \in ListsOf(OverlapVariants, MaxVariants),
          keep \in SUBSET (DOMAIN OverlapFiles),
          limit \in 0..MaxLimit :
          LET Kept(f) == \E k \in keep : OverlapFiles[k] = f
          IN  SplitStart(variants, SelectSeq(OverlapFiles, Kept), limit)
    \/ \E i, j, k \in 2..MaxFlows, limit \in (MaxFlows - 2)..MaxFlows :
          SplitStart(<<<<"x">>, <<"y">>, <<"z">>>>,
                     FlowFiles(<<"x">>, i) \o FlowFiles(<<"y">>, j) \o FlowFiles(<<"z">>, k),
                     limit)
    \/ \E n \in 9..MaxSubdirs, limit \in 0..MaxLimit :
          SplitStart([k \in 1..n |-> NumberedVariant(k)],
                     [k \in 1..n |-> SplitFile(NumberedVariant(k), <<"0", "1">>)],
                     limit)

Init == SplitInit /\ pc = "for" /\ NamesIdle /\ IdsIdle /\ DhmsIdle /\ CwdIdle

Next ==
    \/ BeginVariant
    \/ MoveFile
    \/ CopyFails
    \/ EndVariant
    \/ Return

Spec == Init /\ [][Next]_vars

----------------------------------------------------------------------------
(* Properties of move_testcase_to_split_directories.                        *)

\* the files the filter of the i-th listed variant selects
Selected(i) == FuncVarTestcaseFiles(functional_variants[i], testcase_files)

\* the subdirectories that hold file f
HoldersOf(f) == {d \in DOMAIN dir_sub : f \in dir_sub[d]}

\* the functional variant a file belongs to, as the program itself reads it
\* from the file name (find_testcase_functional_variants_in_dir)
OwnVariant(f) ==
    LET r == TestcaseSearch(f)
    IN  IF r.matched THEN r.functional_variant_name ELSE NoneValue

\* C1 as stated: when the run finishes, every file of testcase_files is in
\* exactly one created subdirectory and no longer in the root directory.
C1_EveryFileMovedOnce ==
    pc = "done" =>
        \A f \in Range(testcase_files) :
            f \notin dir_root /\ Cardinality(HoldersOf(f)) = 1

\* C1 amended: when the run finishes, every file of testcase_files that the
\* filter of some listed variant selects is in exactly one created
\* subdirectory and no longer in the root directory; a file that no listed
\* variant's filter selects is still in the root directory, in no subdirectory.
C1_SelectedFilesMovedOnce ==
    pc = "done" =>
        \A f \in Range(testcase_files) :
            IF \E i \in DOMAIN functional_variants :
                  FilterSearch(functional_variants[i], f)
            THEN f \notin dir_root /\ Cardinality(HoldersOf(f)) = 1
            ELSE f \in dir_root /\ HoldersOf(f) = {}

C1_Witness ==
    /\ pc = "done"
    /\ Cardinality(DOMAIN dir_sub) >= 2
    /\ \E f, g \in Range(testcase_files) : f \in dir_root /\ HoldersOf(g) /= {}

\* C2: the files of one functional variant never lie in two different
\* subdirectories, in any state of the run; and every file moved so far for
\* the variant being processed lies in that variant's subdirectory.
C2_VariantInOneSubdir ==
    /\ \A d1, d2 \in DOMAIN dir_sub :
          d1 /= d2 =>
              {OwnVariant(f) : f \in dir_sub[d1]} \cap {OwnVariant(g) : g \in dir_sub[d2]} = {}
    /\ \A k \in 1..(tc_i - 1) : func_var_testcase_files[k] \in dir_sub[func_var_dir]

C2_Witness ==
    /\ pc = "done"
    /\ \E d1, d2 \in DOMAIN dir_sub :
          /\ d1 /= d2
          /\ Cardinality(dir_sub[d1]) >= 2
          /\ Cardinality(dir_sub[d2]) >= 2
          /\ Cardinality({OwnVariant(f) : f \in dir_sub[d1]}) = 1

\* C3: a subdirectory that holds more than file_count_limit files holds only
\* files selected for one listed variant, whose own file count exceeds the
\* limit; and between iterations and at the end number_of_files_in_subdir is
\* the number of files in the current subdirectory.
C3_LimitAndCounter ==
    /\ \A d \in DOMAIN dir_sub :
          Cardinality(dir_sub[d]) > file_count_limit =>
              \E i \in DOMAIN functional_variants :
                  /\ dir_sub[d] \subseteq Range(Selected(i))
                  /\ Len(Selected(i)) > file_count_limit
    /\ pc \in {"for", "done"} =>
          number_of_files_in_subdir =
              IF func_var_dir = "" THEN 0 ELSE Cardinality(dir_sub[func_var_dir])

C3_Witness ==
    /\ pc = "done"
    /\ \E d1, d2 \in DOMAIN dir_sub :
          /\ Cardinality(dir_sub[d1]) > file_count_limit
          /\ Cardinality(dir_sub[d2]) = file_count_limit
          /\ file_count_limit >= 2
          /\ \E f, g \in dir_sub[d2] : OwnVariant(f) /= OwnVariant(g)

\* the boundary case of C4: limit 5 and three variants of 3, 3 and 6 files
LimitFiveCountsThreeThreeSix ==
    /\ file_count_limit = 5
    /\ Len(functional_variants) = 3
    /\ Len(Selected(1)) = 3
    /\ Len(Selected(2)) = 3
    /\ Len(Selected(3)) = 6

\* C4 as stated: in the boundary case the run ends with exactly two
\* subdirectories, s01 with the files of variants 1 and 2 and s02 with the
\* files of variant 3.
C4_TwoSubdirectories ==
    (pc = "done" /\ LimitFiveCountsThreeThreeSix) =>
        dir_sub = [d \in {"s01", "s02"} |->
                      IF d = "s01" THEN Range(Selected(1)) \cup Range(Selected(2))
                      ELSE Range(Selected(3))]

\* C4 amended: in the boundary case the run ends with exactly three
\* subdirectories, s01 with the 3 files of variant 1, s02 with the 3 files of
\* variant 2 and s03 with the 6 files of variant 3.
C4_ThreeSubdirectories ==
    (pc = "done" /\ LimitFiveCountsThreeThreeSix) =>
        dir_sub = [d \in {"s01", "s02", "s03"} |->
                      IF d = "s01" THEN Range(Selected(1))
                      ELSE IF d = "s02" THEN Range(Selected(2))
                      ELSE Range(Selected(3))]

C4_Witness == pc = "done" /\ LimitFiveCountsThreeThreeSix /\ dir_root = {}

\* the names C5 expects, in creation order
ExpectedSubdirNames ==
    <<"s01", "s02", "s03", "s04", "s05", "s06", "s07", "s08", "s09", "s10",
      "s11", "s12", "s13", "s14", "s15", "s16">>

\* C5: in every state the subdirectories created so far are the first
\* subdir_count - 1 names of s01, ..., s09, s10, s11, ... (no gap, no repeat),
\* and the first variant processed goes into s01.
C5_ConsecutiveNames ==
    /\ subdir_count - 1 <= Len(ExpectedSubdirNames)
    /\ DOMAIN dir_sub = {ExpectedSubdirNames[k] : k \in 1..(subdir_count - 1)}
    /\ (fv_i = 1 /\ pc = "move") => func_var_dir = "s01"
    /\ func_var_dir /= "" => func_var_dir = ExpectedSubdirNames[subdir_count - 1]

C5_Witness == pc = "done" /\ "s09" \in DOMAIN dir_sub /\ "s10" \in DOMAIN dir_sub

----------------------------------------------------------------------------
(* Parsing a list of file names: break_up_filename on each name in turn,    *)
(* and the primary grammar's search on each name in turn.                   *)

\* a caller's loop over file_names: the next name goes through break_up_filename
BreakUpNext ==
    /\ pc = "names"
    /\ Len(parts_out) < Len(file_names)
    /\ \E r \in {break_up_filename(file_names[Len(parts_out) + 1])} :
          /\ parts_out' = Append(parts_out, r.parts)
          /\ log' = log \o r.printed
    /\ UNCHANGED <<templates, file_names, primary_out, pc, splitVars, idVars, dhmsVars, cwdVars>>

\* a caller's loop over file_names: the next name is searched with the primary grammar
PrimaryNext ==
    /\ pc = "names"
    /\ Len(primary_out) < Len(file_names)
    /\ primary_out' = Append(primary_out, PrimarySearch(file_names[Len(primary_out) + 1]))
    /\ UNCHANGED <<templates, file_names, parts_out, log, pc, splitVars, idVars, dhmsVars, cwdVars>>

MaxBatch == 3

CweNumbers == {<<"1">>, <<"5", "8", "0">>}
CweNames == {<<"n">>, <<"n", "_", "_", "m">>}
VariantNames == {<<"a">>, <<"a", "_", "1", "2">>, <<"a", "_", "_", "b">>, <<"_", "a">>, <<>>}
FlowIds == {<<"0", "1">>, <<"8", "1">>, <<"8", "2">>, <<"1">>}
Separators == {<<>>, <<"_">>, <<"_", "_">>}
SubfileIds ==
    {NoneValue, <<"a">>, <<"B">>, <<"b", "a", "d">>, <<"g", "o", "o", "d", "1">>,
     <<"g", "o", "o", "d", "B", "2", "G">>}
Extensions == {<<"c">>, <<"c", "p", "p">>, <<"j", "a", "v", "a">>, <<"h">>, <<"t", "x", "t">>}

Templates ==
    [cwe_number : CweNumbers, cwe_name : CweNames, functional_variant_name : VariantNames,
     flow_variant_id : FlowIds, sep : Separators, subfile_id : SubfileIds,
     extension : Extensions]

\* the file name built from a template; an absent subfile marker adds nothing
NameOf(tpl) ==
    TestcaseFileName(tpl.cwe_number, tpl.cwe_name, tpl.functional_variant_name,
                     tpl.flow_variant_id, tpl.sep,
                     IF tpl.subfile_id = NoneValue THEN <<>> ELSE tpl.subfile_id,
                     tpl.extension)

\* names for a batch: two test-case files and two names that are none
BatchTemplates ==
    [cwe_number : {<<"1">>}, cwe_name : {<<"n">>}, functional_variant_name : {<<"a">>},
     flow_variant_id : {<<"0", "1">>}, sep : {<<>>}, subfile_id : {NoneValue, <<"a">>},
     extension : {<<"c">>, <<"t", "x", "t">>}]

RECURSIVE BatchesOf(_, _)
BatchesOf(S, n) ==
    IF n = 0 THEN {<<>>}
    ELSE LET shorter == BatchesOf(S, n - 1)
         IN  shorter \cup {Append(l, v) : l \in shorter, v \in S}

NamesInit ==
    /\ \/ \E tpl \in Templates : templates = <<tpl>>
       \/ templates \in BatchesOf(BatchTemplates, MaxBatch)
    /\ file_names = [i \in DOMAIN templates |-> NameOf(templates[i])]
    /\ parts_out = <<>>
    /\ primary_out = <<>>
    /\ log = <<>>

InitNames == NamesInit /\ pc = "names" /\ SplitStart(<<>>, <<>>, 0) /\ IdsIdle /\ DhmsIdle /\ CwdIdle

NextNames ==
    \/ BreakUpNext
    \/ PrimaryNext

SpecNames == InitNames /\ [][NextNames]_vars

----------------------------------------------------------------------------
(* Properties of the file-name grammars and of break_up_filename.           *)

\* the record break_up_filename is to return for a name built from tpl
TemplateParts(tpl) ==
    [testcase_cwe_number |-> tpl.cwe_number,
     testcase_cwe_name |-> tpl.cwe_name,
     testcase_function_variant |-> tpl.functional_variant_name,
     testcase_flow_variant |-> tpl.flow_variant_id,
     testcase_subfile_id |-> tpl.subfile_id,
     testcase_language |-> tpl.extension]

\* tpl follows the template of the grammar: at most one underscore before
\* the subfile marker, and an extension of the grammar
InGrammar(tpl) ==
    /\ tpl.sep \in {<<>>, <<"_">>}
    /\ tpl.extension \in TestcaseExtensions

\* x holds two underscores in a row, or starts with one
HasDoubleUnderscore(x) == \E k \in 1..(Len(x) - 1) : x[k] = "_" /\ x[k + 1] = "_"

StartsWithUnderscore(x) == Len(x) >= 1 /\ x[1] = "_"

Bad == <<"b", "a", "d">>

\* C6: the primary grammar matches no name that the test-case grammar reads
\* as flow variant 81 or 82 with subfile marker "bad" (in any letter case),
\* and no name built as ..._81_bad.ext, ..._81bad.ext, ..._82_bad.ext or
\* ..._82bad.ext, whatever the weakness id and name, the functional variant
\* and the extension.
C6_PrimarySkips81And82Bad ==
    \A i \in 1..Len(primary_out) :
        /\ \A r \in {TestcaseSearch(file_names[i])} :
              (/\ r.matched
               /\ r.flow_variant_id \in {<<"8", "1">>, <<"8", "2">>}
               /\ EqualsCI(r.subfile_id, Bad))
                  => ~primary_out[i].matched
        /\ (/\ templates[i].flow_variant_id \in {<<"8", "1">>, <<"8", "2">>}
            /\ EqualsCI(templates[i].subfile_id, Bad)
            /\ templates[i].sep \in {<<>>, <<"_">>})
               => ~primary_out[i].matched

C6_Witness ==
    /\ Len(primary_out) = 1
    /\ templates[1].flow_variant_id = <<"8", "2">>
    /\ templates[1].subfile_id = Bad
    /\ templates[1].sep = <<"_">>
    /\ templates[1].extension = <<"c", "p", "p">>
    /\ templates[1].functional_variant_name = <<"a", "_", "1", "2">>
    /\ TestcaseSearch(file_names[1]).matched
    /\ ~primary_out[1].matched

\* C7 as stated: for every name built from the grammar's template,
\* break_up_filename returns the components the name was built from.
C7_RoundTrip ==
    \A i \in 1..Len(parts_out) :
        InGrammar(templates[i]) => parts_out[i] = TemplateParts(templates[i])

\* C7 amended: for every name built from the grammar's template whose
\* functional variant neither starts with an underscore nor holds two
\* underscores in a row, break_up_filename returns the components the name
\* was built from, an absent subfile marker as None.
C7_RoundTripUnambiguous ==
    \A i \in 1..Len(parts_out) :
        (/\ InGrammar(templates[i])
         /\ ~HasDoubleUnderscore(templates[i].functional_variant_name)
         /\ ~StartsWithUnderscore(templates[i].functional_variant_name))
            => parts_out[i] = TemplateParts(templates[i])

C7_Witness ==
    /\ Len(parts_out) = 1
    /\ InGrammar(templates[1])
    /\ templates[1].cwe_name = <<"n", "_", "_", "m">>
    /\ templates[1].functional_variant_name = <<"a", "_", "1", "2">>
    /\ templates[1].subfile_id = <<"g", "o", "o", "d", "B", "2", "G">>
    /\ templates[1].sep = <<"_">>
    /\ parts_out[1] = TemplateParts(templates[1])
    /\ log = <<>>

NoMatch(file_name) == ~TestcaseSearch(file_name).matched

\* C8: for a name that does not match the grammar break_up_filename returns
\* the record of six empty strings; the log holds one warning per such name
\* processed so far, naming it, in order; and the run goes on parsing names.
C8_BlankRecordAndWarning ==
    /\ \A i \in 1..Len(parts_out) :
          NoMatch(file_names[i]) =>
              parts_out[i] = [testcase_cwe_number |-> <<>>,
                              testcase_cwe_name |-> <<>>,
                              testcase_function_variant |-> <<>>,
                              testcase_flow_variant |-> <<>>,
                              testcase_subfile_id |-> <<>>,
                              testcase_language |-> <<>>]
    /\ \A unmatched \in {SelectSeq(SubSeq(file_names, 1, Len(parts_out)), NoMatch)} :
          /\ Len(log) = Len(unmatched)
          /\ \A k \in 1..Len(log) : log[k].file = unmatched[k]
    /\ pc = "names"

C8_Witness ==
    /\ Len(file_names) = 3
    /\ Len(parts_out) = 3
    /\ NoMatch(file_names[1])
    /\ NoMatch(file_names[2])
    /\ ~NoMatch(file_names[3])
    /\ file_names[1] /= file_names[2]
    /\ Len(log) = 2
    /\ parts_out[3].testcase_language = <<"c">>

----------------------------------------------------------------------------
(* transform_csv with row_fx = add_unique_finding_ids or None, called any   *)
(* number of times in one process. A row is its finding_id cell.            *)

MaxTransforms == 3
MaxRows == 2

\* line 533
FirstUniqueId == 1

StuckUniqueId(count) == count

\* line 545
NextUniqueId(count) == count + 1

\* the finding_id cell of every input row
InputFindingId == 1

\* lines 179-190: the files are opened and the header is written
TransformStart ==
    /\ pc = "idle"
    /\ transforms < MaxTransforms
    /\ \E fx \in {"None", "add_unique_finding_ids"},
          header \in {<<"finding_id">>, <<"file">>},
          n \in 0..MaxRows :
          /\ row_fx' = fx
          /\ orig_header' = header
          /\ rows_left' = n
    /\ written' = Append(written, [row_fx |-> row_fx', rows |-> <<>>])
    /\ transforms' = transforms + 1
    /\ pc' = "rows"
    /\ UNCHANGED <<unique_id_count, splitVars, nameVars, dhmsVars, cwdVars>>

\* lines 192-199 for one row, with lines 541-547 when row_fx is
\* add_unique_finding_ids
TransformRow ==
    /\ pc = "rows"
    /\ rows_left > 0
    /\ IF row_fx = "None"
       THEN /\ written' = [written EXCEPT ![Len(written)].rows = Append(@, InputFindingId)]
            /\ rows_left' = rows_left - 1
            /\ UNCHANGED <<unique_id_count, pc>>
       ELSE IF \A k \in DOMAIN orig_header : orig_header[k] /= "finding_id"
            THEN \* orig_header.index raises ValueError
                 /\ pc' = "raised"
                 /\ UNCHANGED <<unique_id_count, written, rows_left>>
            ELSE /\ written' = [written EXCEPT
                                   ![Len(written)].rows = Append(@, unique_id_count)]
                 /\ unique_id_count' = NextUniqueId(unique_id_count)
                 /\ rows_left' = rows_left - 1
                 /\ UNCHANGED pc
    /\ UNCHANGED <<row_fx, orig_header, transforms, splitVars, nameVars, dhmsVars, cwdVars>>

\* line 201: the reader is exhausted and transform_csv returns
TransformEnd ==
    /\ pc = "rows"
    /\ rows_left = 0
    /\ pc' = "idle"
    /\ UNCHANGED <<idVars, splitVars, nameVars, dhmsVars, cwdVars>>

InitIds ==
    /\ unique_id_count = FirstUniqueId
    /\ row_fx = "None"
    /\ orig_header = <<>>
    /\ rows_left = 0
    /\ written = <<>>
    /\ transforms = 0
    /\ pc = "idle"
    /\ SplitStart(<<>>, <<>>, 0)
    /\ NamesIdle
    /\ DhmsIdle
    /\ CwdIdle

NextIds ==
    \/ TransformStart
    \/ TransformRow
    \/ TransformEnd

SpecIds == InitIds /\ [][NextIds]_vars

\* the ids add_unique_finding_ids has written, over all output files, in order
RECURSIVE UniqueIdsWritten(_)
UniqueIdsWritten(files) ==
    IF files = <<>> THEN <<>>
    ELSE UniqueIdsWritten(SubSeq(files, 1, Len(files) - 1)) \o
            (IF files[Len(files)].row_fx = "add_unique_finding_ids"
             THEN files[Len(files)].rows ELSE <<>>)

\* C9: the ids written by add_unique_finding_ids since the process started
\* are 1, 2, ..., n in this order (so no two are equal), over all
\* transform_csv runs, and the counter is n + 1.
C9_IdsCountUp ==
    \A ids \in {UniqueIdsWritten(written)} :
        /\ \A k \in 1..Len(ids) : ids[k] = k
        /\ unique_id_count = Len(ids) + 1

C9_Witness ==
    /\ Len(written) = 3
    /\ written[1].row_fx = "add_unique_finding_ids"
    /\ written[2].row_fx = "None"
    /\ written[3].row_fx = "add_unique_finding_ids"
    /\ written[1].rows = <<1, 2>>
    /\ written[2].rows = <<1, 1>>
    /\ written[3].rows = <<3, 4>>
    /\ pc = "idle"

----------------------------------------------------------------------------
(* convertSecondsToDHMS. The argument is a number of tenths of a second.    *)

MaxDays == 2
MaxFractionSeconds == 3

\* str(round(seconds, 2)) for 0 <= seconds < 1, seconds a float
StrOfFraction(tenths) == "0." \o DigitStr[tenths + 1]

\* int(round(seconds)): round half to even
RoundToInt(tenths) ==
    LET whole == tenths \div 10
        rest == tenths % 10
    IN  IF rest < 5 THEN whole
        ELSE IF rest > 5 THEN whole + 1
        ELSE IF whole % 2 = 0 THEN whole ELSE whole + 1

PluralUpToOne(n) == IF n <= 1 THEN "" ELSE "s"

\* "" if n==1 else "s"
Plural(n) == IF n = 1 THEN "" ELSE "s"

\* lines 665-670
FormatDHMS(days, hours, minutes, seconds) ==
    Str(days) \o " day" \o Plural(days) \o ", " \o
    Str(hours) \o " hour" \o Plural(hours) \o ", " \o
    Str(minutes) \o " minute" \o Plural(minutes) \o ", " \o
    Str(seconds) \o " second" \o Plural(seconds)

\* lines 659-663, with divmod written out
DivModDHMS(total) ==
    FormatDHMS(((total \div 60) \div 60) \div 24,
               ((total \div 60) \div 60) % 24,
               (total \div 60) % 60,
               total % 60)

\* lines 649-672
convertSecondsToDHMS(tenths) ==
    IF tenths >= 0 /\ tenths < 10
    THEN StrOfFraction(tenths)
    ELSE DivModDHMS(RoundToInt(tenths))

ConvertSeconds ==
    /\ pc = "dhms"
    /\ dhms_out' = convertSecondsToDHMS(seconds_in)
    /\ pc' = "formatted"
    /\ UNCHANGED <<seconds_in, splitVars, nameVars, idVars, cwdVars>>

\* whole numbers of seconds around every unit boundary, and fractions
DhmsInputs ==
    {10 * (((d * 24 + h) * 60 + m) * 60 + x) :
        d \in 0..MaxDays, h \in {0, 1, 2, 23}, m \in {0, 1, 2, 59}, x \in {0, 1, 2, 30, 59}}
    \cup {10 * x + f : x \in 0..MaxFractionSeconds, f \in 0..9}

InitDhms ==
    /\ seconds_in \in DhmsInputs
    /\ dhms_out = ""
    /\ pc = "dhms"
    /\ SplitStart(<<>>, <<>>, 0)
    /\ NamesIdle
    /\ IdsIdle
    /\ CwdIdle

NextDhms == ConvertSeconds

SpecDhms == InitDhms /\ [][NextDhms]_vars

\* n followed by the unit word, singular exactly for 1
Counted(n, one, many) == Str(n) \o " " \o (IF n = 1 THEN one ELSE many)

\* C10: for a whole number s >= 1 of seconds the result is
\* "D day(s), H hour(s), M minute(s), S second(s)" where D, H, M, S are the
\* days, hours, minutes and seconds of s (D*86400 + H*3600 + M*60 + S = s,
\* H < 24, M < 60, S < 60) and each unit word is singular exactly for 1;
\* 90 seconds give "0 days, 0 hours, 1 minute, 30 seconds".
C10_DaysHoursMinutesSeconds ==
    (pc = "formatted" /\ seconds_in % 10 = 0 /\ seconds_in >= 10) =>
        \E s \in {seconds_in \div 10} :
        \E D \in {s \div 86400} :
        \E H \in {(s - D * 86400) \div 3600} :
        \E M \in {(s - D * 86400 - H * 3600) \div 60} :
        \E S \in {s - D * 86400 - H * 3600 - M * 60} :
            /\ D * 86400 + H * 3600 + M * 60 + S = s
            /\ H < 24 /\ M < 60 /\ S < 60
            /\ dhms_out = Counted(D, "day", "days") \o ", " \o
                          Counted(H, "hour", "hours") \o ", " \o
                          Counted(M, "minute", "minutes") \o ", " \o
                          Counted(S, "second", "seconds")
            /\ (s = 90 => dhms_out = "0 days, 0 hours, 1 minute, 30 seconds")

C10_Witness ==
    /\ pc = "formatted"
    /\ seconds_in = 10 * (86400 + 2 * 3600 + 59)
    /\ dhms_out = "1 day, 2 hours, 0 minutes, 59 seconds"

----------------------------------------------------------------------------
(* run_analysis. A build file is <<directory, base name>>, the two halves   *)
(* of the real path find_files_in_dir returns.                              *)

MaxBuildFiles == 2

\* os.path.dirname and os.path.basename of a real path
dirname(file) == file[1]

basename(file) == file[2]

\* the build files under test_case_path
BuildFiles == {<<"/t", "build.xml">>, <<"/t/a", "build.xml">>, <<"/t/b", "Makefile">>}

\* the working directory of the caller
StartDirs == {"/s", "/t", "/home"}

\* sys.path[0]: the directory of the script, or "" when there is no script
ScriptDirs == {"/s", "/t", ""}

\* lines 420-422
EnterDirectory ==
    /\ pc = "files"
    /\ build_i <= Len(build_files)
    /\ cwd' = dirname(build_files[build_i])
    /\ pc' = "in_dir"
    /\ UNCHANGED <<cwd_at_call, sys_path_0, build_files, build_i, analysed>>
    /\ UNCHANGED <<splitVars, nameVars, idVars, dhmsVars>>

\* lines 425-426: the callback returns
RunCallback ==
    /\ pc = "in_dir"
    /\ analysed' = Append(analysed, basename(build_files[build_i]))
    /\ pc' = "ran"
    /\ UNCHANGED <<cwd, cwd_at_call, sys_path_0, build_files, build_i>>
    /\ UNCHANGED <<splitVars, nameVars, idVars, dhmsVars>>

\* lines 425-426: the callback raises, and nothing catches it
CallbackRaises ==
    /\ pc = "in_dir"
    /\ analysed' = Append(analysed, basename(build_files[build_i]))
    /\ pc' = "raised"
    /\ UNCHANGED <<cwd, cwd_at_call, sys_path_0, build_files, build_i>>
    /\ UNCHANGED <<splitVars, nameVars, idVars, dhmsVars>>

\* line 429: os.chdir(sys.path[0]); os.chdir("") raises FileNotFoundError
ChdirSysPath ==
    /\ pc = "ran"
    /\ IF sys_path_0 = ""
       THEN /\ pc' = "raised"
            /\ UNCHANGED <<cwd, build_i>>
       ELSE /\ cwd' = sys_path_0
            /\ build_i' = build_i + 1
            /\ pc' = "files"
    /\ UNCHANGED <<cwd_at_call, sys_path_0, build_files, analysed>>
    /\ UNCHANGED <<splitVars, nameVars, idVars, dhmsVars>>

\* lines 431-437: the loop is over
ReturnFromAnalysis ==
    /\ pc = "files"
    /\ build_i > Len(build_files)
    /\ pc' = "returned"
    /\ UNCHANGED <<cwdVars, splitVars, nameVars, idVars, dhmsVars>>

InitCwd ==
    /\ cwd \in StartDirs
    /\ cwd_at_call = cwd
    /\ sys_path_0 \in ScriptDirs
    /\ build_files \in UNION {[1..n -> BuildFiles] : n \in 0..MaxBuildFiles}
    /\ build_i = 1
    /\ analysed = <<>>
    /\ pc = "files"
    /\ SplitStart(<<>>, <<>>, 0)
    /\ NamesIdle
    /\ IdsIdle
    /\ DhmsIdle

NextCwd ==
    \/ EnterDirectory
    \/ RunCallback
    \/ CallbackRaises
    \/ ChdirSysPath
    \/ ReturnFromAnalysis

SpecCwd == InitCwd /\ [][NextCwd]_vars

\* C11: after each build file is processed, and when run_analysis returns,
\* the working directory is the one that was current when run_analysis was
\* called.
C11_WorkingDirectoryRestored ==
    (pc = "returned" \/ (pc = "files" /\ build_i > 1)) => cwd = cwd_at_call

=============================================================================
